---- MODULE Spec2Model ----
(***************************************************************************)
(* NetworksAndSignersProvider (arb-token-bridge-ui): the React component   *)
(* that resolves the wallet connection into an L1/L2 pair of networks,     *)
(* signers and providers, and publishes one discriminated result.          *)
(*                                                                         *)
(* A state of the model is a committed render of the component together    *)
(* with the passive effects that render left to run, the promises in       *)
(* flight, and the process-wide network registry of @arbitrum/sdk.         *)
(* React flushes the passive effects of a commit before it renders again,  *)
(* so while effects are left to run no other handler is taken.             *)
(*                                                                         *)
(* props.selectedL2ChainId is chosen once per behaviour.  What             *)
(* addCustomNetwork does with a pair that is already included is not       *)
(* decided by this repository: rejectsDuplicates leaves both answers open. *)
(*                                                                         *)
(* WithdrawalCardExecuted (the second component modelled, SpecCard) arms a *)
(* timer when it shows a transaction and dispatches set_tx_as_seen when    *)
(* the timer fires.  Its effect and the cleanup of the effect before it    *)
(* are taken with the render that causes them, as for the effects above.   *)
(***************************************************************************)
EXTENDS Integers, Sequences, FiniteSets, TLC

(***************************************************************************)
(* Bounds of the model.                                                    *)
(***************************************************************************)
\* calls of update() in one behaviour
MaxRes == 2

\* how many times the card's timer effect runs in one behaviour
MaxDisplays == 3

(***************************************************************************)
(* Chain identifiers.                                                      *)
(***************************************************************************)
\* `selectedL2ChainId?: number` left out by the caller, and a lookup in
\* chainIdToDefaultL2ChainId that has no entry
NoChain == 0
\* customL1Network.chainID
EthLocal == 1337
\* customL2Network.chainID
ArbLocal == 412346
\* a well-known base chain and its two rollups, known to the registry from the start
Mainnet == 1
ArbOne == 42161
ArbNova == 42170
\* a rollup identifier nobody knows, and a wallet chain nobody knows
UnknownL2 == 777
UnknownChain == 999999

\* the chains the wallet is seen on, and the rollups the caller is seen to select
Chains == {ArbOne, EthLocal, ArbLocal, UnknownChain}
SelectableL2 == {NoChain, ArbLocal, ArbNova, UnknownL2}

NoAccount == "undefined"
Accounts == {"0xA"}

\* enum UseNetworksAndSignersStatus
LOADING == "loading"
NOT_CONNECTED == "not_connected"
NOT_SUPPORTED == "not_supported"
CONNECTED == "connected"
Statuses == {LOADING, NOT_CONNECTED, NOT_SUPPORTED, CONNECTED}

\* a slip: the initial status does not look at window.web3
defaultStatus_AlwaysLoading(web3Defined) == LOADING

\* const defaultStatus, from whether window.web3 is defined
defaultStatus(web3Defined) == IF ~web3Defined THEN NOT_CONNECTED ELSE LOADING

(***************************************************************************)
(* The network descriptors the component registers, and the ones the       *)
(* registry knows from the start.                                          *)
(***************************************************************************)
customL1Network ==
  [chainID |-> EthLocal, name |-> "EthLocal", isCustom |-> TRUE,
   partnerChainIDs |-> {ArbLocal}, rpcURL |-> "http://localhost:8545"]

customL2Network ==
  [chainID |-> ArbLocal, name |-> "ArbLocal", isCustom |-> TRUE, isArbitrum |-> TRUE,
   partnerChainID |-> EthLocal, rpcURL |-> "http://localhost:8547"]

mainnetL1Network ==
  [chainID |-> Mainnet, name |-> "Mainnet", isCustom |-> FALSE,
   partnerChainIDs |-> {ArbOne, ArbNova}, rpcURL |-> "mainnet-rpc"]

arbOneL2Network ==
  [chainID |-> ArbOne, name |-> "Arbitrum One", isCustom |-> FALSE, isArbitrum |-> TRUE,
   partnerChainID |-> Mainnet, rpcURL |-> "arb1-rpc"]

arbNovaL2Network ==
  [chainID |-> ArbNova, name |-> "Arbitrum Nova", isCustom |-> FALSE, isArbitrum |-> TRUE,
   partnerChainID |-> Mainnet, rpcURL |-> "nova-rpc"]

WellKnownRegistry ==
  [l1 |-> {mainnetL1Network}, l2 |-> {arbOneL2Network, arbNovaL2Network}]

\* '../util/networks': the default rollup of a wallet chain, NoChain without entry
chainIdToDefaultL2ChainId(chainId) ==
  CASE chainId = Mainnet -> ArbOne
    [] chainId = ArbOne -> ArbOne
    [] chainId = ArbNova -> ArbNova
    [] chainId = EthLocal -> ArbLocal
    [] chainId = ArbLocal -> ArbLocal
    [] OTHER -> NoChain

\* '../util/networks': the RPC endpoint of a chain, "undefined" without entry
rpcURLs(chainId) ==
  CASE chainId = Mainnet -> "mainnet-rpc"
    [] chainId = ArbOne -> "arb1-rpc"
    [] chainId = ArbNova -> "nova-rpc"
    [] chainId = EthLocal -> "http://localhost:8545"
    [] chainId = ArbLocal -> "http://localhost:8547"
    [] OTHER -> "undefined"

\* the chain that answers at an RPC endpoint, NoChain where nothing answers
ChainAt(url) ==
  CASE url = "mainnet-rpc" -> Mainnet
    [] url = "arb1-rpc" -> ArbOne
    [] url = "nova-rpc" -> ArbNova
    [] url = "http://localhost:8545" -> EthLocal
    [] url = "http://localhost:8547" -> ArbLocal
    [] OTHER -> NoChain

(***************************************************************************)
(* Providers and signers (ethers).                                         *)
(***************************************************************************)
\* the wallet's provider, attached to the wallet's active chain
Web3Provider(chainId) == [kind |-> "Web3Provider", chainId |-> chainId]

\* new JsonRpcProvider(url)
JsonRpcProvider(url) == [kind |-> "JsonRpcProvider", url |-> url]

\* provider.getSigner(addressOrIndex)
getSigner(provider, addressOrIndex) == [provider |-> provider, key |-> addressOrIndex]

\* the chain identifier a provider reports: (await provider.getNetwork()).chainId
ChainOf(provider) ==
  IF provider.kind = "Web3Provider" THEN provider.chainId ELSE ChainAt(provider.url)

(***************************************************************************)
(* @arbitrum/sdk: the registry and its lookups.                            *)
(***************************************************************************)
\* is the pair already in the registry
Registered(reg, l1, l2) == l1 \in reg.l1 /\ l2 \in reg.l2

\* addCustomNetwork({customL1Network, customL2Network}): the registry afterwards
addCustomNetwork(reg, l1, l2) == [l1 |-> reg.l1 \cup {l1}, l2 |-> reg.l2 \cup {l2}]

\* getL1Network(provider, l2ChainId): the base descriptors the lookup can answer
L1Matches(reg, provider, l2ChainId) ==
  {d \in reg.l1 : d.chainID = ChainOf(provider) /\ l2ChainId \in d.partnerChainIDs}

\* getL2Network(provider): the rollup descriptors the lookup can answer
L2Matches(reg, provider) == {d \in reg.l2 : d.chainID = ChainOf(provider)}

(***************************************************************************)
(* The results the component publishes with setResult.                     *)
(***************************************************************************)
StatusResult(status) == [status |-> status]

\* a slip: the base branch publishes the flag of the rollup branch
ConnectedOnL1_Flag(l1Network, l2Network, web3Provider, l1Provider, l2Provider, address) ==
  [status |-> CONNECTED,
   l1 |-> [network |-> l1Network, signer |-> getSigner(web3Provider, "0"),
           provider |-> l1Provider],
   l2 |-> [network |-> l2Network, signer |-> getSigner(l2Provider, address),
           provider |-> l2Provider],
   isConnectedToArbitrum |-> TRUE]

\* setResult of the getL1Network .then branch: the wallet is on the base chain
ConnectedOnL1(l1Network, l2Network, web3Provider, l1Provider, l2Provider, address) ==
  [status |-> CONNECTED,
   l1 |-> [network |-> l1Network, signer |-> getSigner(web3Provider, "0"),
           provider |-> l1Provider],
   l2 |-> [network |-> l2Network, signer |-> getSigner(l2Provider, address),
           provider |-> l2Provider],
   isConnectedToArbitrum |-> FALSE]

\* a slip: the rollup branch publishes its own side only
ConnectedOnL2_OneSide(l1Network, l2Network, web3Provider, l1Provider, l2Provider, address) ==
  [status |-> CONNECTED,
   l2 |-> [network |-> l2Network, signer |-> getSigner(web3Provider, "0"),
           provider |-> l2Provider],
   isConnectedToArbitrum |-> TRUE]

\* a slip: the rollup branch takes both signers from the wallet
ConnectedOnL2_Wallet(l1Network, l2Network, web3Provider, l1Provider, l2Provider, address) ==
  [status |-> CONNECTED,
   l1 |-> [network |-> l1Network, signer |-> getSigner(web3Provider, "0"),
           provider |-> l1Provider],
   l2 |-> [network |-> l2Network, signer |-> getSigner(web3Provider, "0"),
           provider |-> l2Provider],
   isConnectedToArbitrum |-> TRUE]

\* setResult of the getL2Network .then branch: the wallet is on the rollup
ConnectedOnL2(l1Network, l2Network, web3Provider, l1Provider, l2Provider, address) ==
  [status |-> CONNECTED,
   l1 |-> [network |-> l1Network, signer |-> getSigner(l1Provider, address),
           provider |-> l1Provider],
   l2 |-> [network |-> l2Network, signer |-> getSigner(web3Provider, "0"),
           provider |-> l2Provider],
   isConnectedToArbitrum |-> TRUE]

\* a slip: the catch block of tryConnect leaves the component waiting
TryConnectCatch_Loading == StatusResult(LOADING)

\* what tryConnect publishes when connect() rejects
TryConnectCatch == StatusResult(NOT_CONNECTED)

\* a slip: the disconnect effect tests the status it resets to
DisconnectDetected_WrongStatus(res, acct) ==
  res.status = NOT_CONNECTED /\ acct = NoAccount

\* the disconnect effect: `connected && typeof account === 'undefined'`
DisconnectDetected(res, acct) == res.status = CONNECTED /\ acct = NoAccount

\* the wallet-change effect: `provider && account && network`
WalletReady(prov, acct, net) == prov # NoChain /\ acct # NoAccount /\ net # NoChain

\* a slip: the default derivation overrides an explicit selection
DeriveL2ChainId_AlwaysDefault(selected, providerChainId) ==
  chainIdToDefaultL2ChainId(providerChainId)

\* update: `_selectedL2ChainId` after the default derivation
DeriveL2ChainId(selected, providerChainId) ==
  IF selected = NoChain THEN chainIdToDefaultL2ChainId(providerChainId) ELSE selected

\* a slip: the .catch branch without its chain-id check
ChainIdMismatch_Never(providerChainId, selected) == FALSE

\* the .catch branch: `providerChainId != _selectedL2ChainId`
ChainIdMismatch(providerChainId, selected) == providerChainId # selected

(***************************************************************************)
(* The consumer context.                                                   *)
(***************************************************************************)
\* createContext(undefined): the value outside a Provider
UndefinedContext == [undefined |-> TRUE]

\* the render gate: what the component renders for a result
Render(res) ==
  IF res.status # CONNECTED
    THEN [view |-> "fallback", status |-> res.status, context |-> UndefinedContext]
    ELSE [view |-> "children", status |-> res.status, context |-> res]

\* a slip: the hook hands out whatever the context holds
useNetworksAndSigners_Default(context) == [threw |-> FALSE, value |-> context]

\* useNetworksAndSigners(): the context, or the Error it throws
useNetworksAndSigners(context) ==
  IF context = UndefinedContext THEN [threw |-> TRUE] ELSE [threw |-> FALSE, value |-> context]

(***************************************************************************)
(* State.                                                                  *)
(***************************************************************************)
VARIABLES
  selectedL2ChainId,  \* props.selectedL2ChainId, NoChain when left out
  provider,           \* useWallet().provider: the chain of the Web3Provider, NoChain = undefined
  account,            \* useWallet().account
  network,            \* useWallet().network: the wallet's active chain, NoChain = undefined
  connectPc,          \* the connect() promise of tryConnect
  result,             \* useState: the published result
  pending,            \* passive effects of the last commit not yet run
  calls,              \* the calls of update(), in the order they started
  settled,            \* the call of update() that settled in the last step, if one did
  registry,           \* @arbitrum/sdk l1Networks / l2Networks
  rejectsDuplicates,  \* does addCustomNetwork throw for a network already included
  card,               \* WithdrawalCardExecuted: mounted, tx.txId, the effect's `timeout`
  timers,             \* the browser's timers armed by the card
  dispatched,         \* the set_tx_as_seen actions dispatched, in order
  displays            \* how many times the card's timer effect has run

hookVars == <<selectedL2ChainId, provider, account, network, connectPc,
              result, pending, calls, settled, registry, rejectsDuplicates>>

cardVars == <<card, timers, dispatched, displays>>

vars == <<hookVars, cardVars>>

(***************************************************************************)
(* WithdrawalCardExecuted: the timer of its second effect.                 *)
(***************************************************************************)
\* tx.txId of the transactions a card can show
TxIds == {"tx1", "tx2"}

NoTx == "none"

\* `60 * 1000` milliseconds, counted in seconds
SeenAfter == 60

\* no card on screen
NoCard == [mounted |-> FALSE, txId |-> NoTx, timeout |-> 0]

\* setTimeout(callback, 60 * 1000): the callback closes over tx.txId
setTimeout(ts, handle, txId) ==
  ts \cup {[id |-> handle, txId |-> txId, elapsed |-> 0]}

\* a slip: the cleanup of the effect leaves the timer armed
clearTimeout_Noop(ts, handle) == ts

\* clearTimeout(timeout)
clearTimeout(ts, handle) == {t \in ts : t.id # handle}

\* a slip: the timer is due at once
Due_AtOnce(t) == TRUE

\* the timer has run its 60 seconds
Due(t) == t.elapsed = SeenAfter

\* dispatch({ type: 'set_tx_as_seen', payload: tx.txId }) in the callback of timer t,
\* with what the card showed when it ran
SetTxAsSeen(t, shown) ==
  [type |-> "set_tx_as_seen", payload |-> t.txId, timer |-> t.id, elapsed |-> t.elapsed,
   mounted |-> shown.mounted, shownTxId |-> shown.txId, shownTimer |-> shown.timeout]

InitCard ==
  /\ card = NoCard
  /\ timers = {}
  /\ dispatched = <<>>
  /\ displays = 0

NoNetwork == [chainID |-> NoChain]

\* setResult(r) followed by the commit: the disconnect effect depends on result
AfterSetResult(effects) == effects \cup {"disconnect"}

\* the state of one call of update(web3Provider, address) at its first await
NewCall(web3Provider, address, selected, reg) ==
  [web3Provider |-> web3Provider, address |-> address, selectedL2ChainId |-> selected,
   pc |-> "getNetwork", providerChainId |-> NoChain, l2ChainId |-> NoChain,
   l1Network |-> NoNetwork, l2Network |-> NoNetwork,
   published |-> <<>>, failed |-> FALSE, baseFailed |-> FALSE,
   registrationThrew |-> FALSE, counterpartFailed |-> FALSE,
   registry0 |-> reg, lookups |-> 0, registrations |-> 0, providers |-> 0]

\* what is kept of a call that settled: how it ended and what it published
Settled(c) == [pc |-> c.pc, published |-> c.published]

Init ==
  /\ selectedL2ChainId \in SelectableL2
  /\ provider = NoChain
  /\ account = NoAccount
  /\ network = NoChain
  /\ connectPc = "init"
  /\ \E web3Defined \in BOOLEAN : result = StatusResult(defaultStatus(web3Defined))
  /\ pending = {"disconnect", "tryConnect", "walletChange"}
  /\ calls = <<>>
  /\ settled = <<>>
  /\ registry \in {WellKnownRegistry,
                   addCustomNetwork(WellKnownRegistry, customL1Network, customL2Network)}
  /\ rejectsDuplicates \in BOOLEAN
  /\ InitCard

(***************************************************************************)
(* The passive effects, run in the order the component declares them.      *)
(***************************************************************************)
\* useEffect(..., [account, result])
DisconnectEffect ==
  /\ "disconnect" \in pending
  /\ IF DisconnectDetected(result, account)
       THEN /\ result' = StatusResult(NOT_CONNECTED)
            /\ pending' = AfterSetResult(pending \ {"disconnect"})
       ELSE /\ pending' = pending \ {"disconnect"}
            /\ UNCHANGED result
  /\ settled' = <<>>
  /\ UNCHANGED <<selectedL2ChainId, provider, account, network, connectPc,
                 calls, registry, rejectsDuplicates>>
  /\ UNCHANGED cardVars

\* useEffect(..., [connect]): tryConnect() up to `await connect(modalProviderOpts)`
ConnectEffect ==
  /\ "tryConnect" \in pending
  /\ "disconnect" \notin pending
  /\ connectPc' = "pending"
  /\ pending' = pending \ {"tryConnect"}
  /\ settled' = <<>>
  /\ UNCHANGED <<selectedL2ChainId, provider, account, network, result,
                 calls, registry, rejectsDuplicates>>
  /\ UNCHANGED cardVars

\* useEffect(..., [provider, account, network, update])
WalletChangeEffect ==
  /\ "walletChange" \in pending
  /\ "disconnect" \notin pending
  /\ "tryConnect" \notin pending
  /\ pending' = pending \ {"walletChange"}
  /\ IF WalletReady(provider, account, network)
       THEN calls' = Append(calls, NewCall(Web3Provider(provider), account,
                                           selectedL2ChainId, registry))
       ELSE UNCHANGED calls
  /\ settled' = <<>>
  /\ UNCHANGED <<selectedL2ChainId, provider, account, network, connectPc,
                 result, registry, rejectsDuplicates>>
  /\ UNCHANGED cardVars

(***************************************************************************)
(* tryConnect: the connect() promise settles.                              *)
(***************************************************************************)
\* the starts of update() a wallet state would still be allowed to cause
CanStart(acct, net) == (acct # NoAccount /\ net # NoChain) => Len(calls) < MaxRes

\* connect() resolves: useWallet publishes provider, account and network
ConnectResolved ==
  /\ pending = {}
  /\ connectPc = "pending"
  /\ \E a \in Accounts, c \in Chains :
       /\ CanStart(a, c)
       /\ account' = a
       /\ network' = c
       /\ provider' = c
  /\ connectPc' = "resolved"
  /\ pending' = {"disconnect", "walletChange"}
  /\ settled' = <<>>
  /\ UNCHANGED <<selectedL2ChainId, result, calls, registry, rejectsDuplicates>>
  /\ UNCHANGED cardVars

\* connect() rejects: the catch block of tryConnect
ConnectRejected ==
  /\ pending = {}
  /\ connectPc = "pending"
  /\ connectPc' = "rejected"
  /\ result' = TryConnectCatch
  /\ pending' = AfterSetResult(pending)
  /\ settled' = <<>>
  /\ UNCHANGED <<selectedL2ChainId, provider, account, network, calls, registry, rejectsDuplicates>>
  /\ UNCHANGED cardVars

(***************************************************************************)
(* The wallet changes what the component renders with.                     *)
(***************************************************************************)
\* the wallet reports another account, or none
AccountsChanged ==
  /\ pending = {}
  /\ connectPc = "resolved"
  /\ \E a \in (Accounts \cup {NoAccount}) \ {account} :
       /\ CanStart(a, network)
       /\ account' = a
  /\ pending' = {"disconnect", "walletChange"}
  /\ settled' = <<>>
  /\ UNCHANGED <<selectedL2ChainId, provider, network, connectPc, result,
                 calls, registry, rejectsDuplicates>>
  /\ UNCHANGED cardVars

\* the wallet switches its active chain: a new Web3Provider and network
ChainChanged ==
  /\ pending = {}
  /\ connectPc = "resolved"
  /\ \E c \in Chains \ {network} :
       /\ CanStart(account, c)
       /\ network' = c
       /\ provider' = c
  /\ pending' = {"walletChange"}
  /\ settled' = <<>>
  /\ UNCHANGED <<selectedL2ChainId, account, connectPc, result, calls, registry, rejectsDuplicates>>
  /\ UNCHANGED cardVars

(***************************************************************************)
(* update(web3Provider, address): one action per promise that settles.     *)
(* Each settles as the registry and the chain decide, or, with ok = FALSE, *)
(* rejects because the RPC call behind it failed.                          *)
(***************************************************************************)
\* addCustomNetwork throws: the pair is already included and the library refuses it
RegistrationThrows(reg, strict) ==
  strict /\ Registered(reg, customL1Network, customL2Network)

Published(c, r) == [c EXCEPT !.pc = "done", !.published = <<r>>]

Step(c, reg, publish) == [call |-> c, registry |-> reg, publish |-> publish]

\* a slip: no `return` after the setResult for an unknown provider chainId
AfterGetNetwork_NoReturn(c, reg) ==
  LET providerChainId == ChainOf(c.web3Provider)
      l2ChainId == DeriveL2ChainId(c.selectedL2ChainId, providerChainId)
      c1 == [c EXCEPT !.providerChainId = providerChainId, !.l2ChainId = l2ChainId]
  IN  Step([c1 EXCEPT !.pc = "getL1Network", !.lookups = @ + 1], reg,
           IF l2ChainId = NoChain THEN <<StatusResult(NOT_SUPPORTED)>> ELSE <<>>)

\* the body of update up to getL1Network(web3Provider, _selectedL2ChainId)
AfterGetNetwork(c, reg) ==
  LET providerChainId == ChainOf(c.web3Provider)
      l2ChainId == DeriveL2ChainId(c.selectedL2ChainId, providerChainId)
      c1 == [c EXCEPT !.providerChainId = providerChainId, !.l2ChainId = l2ChainId]
  IN  IF l2ChainId = NoChain
        THEN Step(Published(c1, StatusResult(NOT_SUPPORTED)), reg,
                  <<StatusResult(NOT_SUPPORTED)>>)
        ELSE Step([c1 EXCEPT !.pc = "getL1Network", !.lookups = @ + 1], reg, <<>>)

\* the .catch callback of getL1Network(...).then(...): it also receives what the
\* .then callback throws; what it throws itself (addCustomNetwork) nobody handles
Catch(c, reg, strict) ==
  LET c1 == [c EXCEPT !.baseFailed = TRUE]
  IN  IF ChainIdMismatch(c.providerChainId, c.l2ChainId)
        THEN Step(Published(c1, StatusResult(NOT_SUPPORTED)), reg,
                  <<StatusResult(NOT_SUPPORTED)>>)
        ELSE IF RegistrationThrows(reg, strict)
          THEN Step([c1 EXCEPT !.pc = "rejected", !.registrations = @ + 1,
                               !.registrationThrew = TRUE], reg, <<>>)
          ELSE Step([c1 EXCEPT !.pc = "rollup:getL2Network", !.registrations = @ + 1,
                               !.lookups = @ + 1],
                    addCustomNetwork(reg, customL1Network, customL2Network), <<>>)

\* the .then callback of getL1Network up to getL2Network(l2Provider)
ThenL1Network(c, l1Network, reg, strict) ==
  LET c1 == [c EXCEPT !.l1Network = l1Network, !.providers = @ + 1,
                      !.registrations = @ + 1]
  IN  IF RegistrationThrows(reg, strict)
        THEN Catch([c1 EXCEPT !.registrationThrew = TRUE], reg, strict)
        ELSE Step([c1 EXCEPT !.pc = "base:getL2Network", !.lookups = @ + 1],
                  addCustomNetwork(reg, customL1Network, customL2Network), <<>>)

\* a slip: the base branch publishes the wallet's provider as the l2 provider
ThenBaseL2Network_WalletProvider(c, l2Network, reg) ==
  LET l1Provider == JsonRpcProvider(rpcURLs(c.l1Network.chainID))
      r == ConnectedOnL1(c.l1Network, l2Network, c.web3Provider, l1Provider,
                         c.web3Provider, c.address)
  IN  Step(Published([c EXCEPT !.l2Network = l2Network, !.providers = @ + 1], r),
           reg, <<r>>)

\* the .then callback of getL1Network after getL2Network(l2Provider) resolved
ThenBaseL2Network(c, l2Network, reg) ==
  LET l2Provider == JsonRpcProvider(rpcURLs(c.l2ChainId))
      l1Provider == JsonRpcProvider(rpcURLs(c.l1Network.chainID))
      r == ConnectedOnL1(c.l1Network, l2Network, c.web3Provider, l1Provider, l2Provider,
                         c.address)
  IN  Step(Published([c EXCEPT !.l2Network = l2Network, !.providers = @ + 1], r),
           reg, <<r>>)

\* the .then callback of getL2Network(web3Provider) up to getL1Network(l1Provider, ...)
ThenRollupL2Network(c, l2Network, reg) ==
  Step([c EXCEPT !.l2Network = l2Network, !.providers = @ + 1, !.lookups = @ + 1,
                 !.pc = "rollup:getL1Network"], reg, <<>>)

\* the .then callback of getL2Network(web3Provider) after getL1Network resolved
ThenRollupL1Network(c, l1Network, reg) ==
  LET l1Provider == JsonRpcProvider(rpcURLs(c.l2Network.partnerChainID))
      l2Provider == JsonRpcProvider(rpcURLs(c.l2Network.chainID))
      r == ConnectedOnL2(l1Network, c.l2Network, c.web3Provider, l1Provider, l2Provider,
                         c.address)
  IN  Step(Published([c EXCEPT !.l1Network = l1Network, !.providers = @ + 1], r),
           reg, <<r>>)

\* a slip: the inner .catch callback swallows the failure
CatchRollup_Swallow(c, reg) == Step([c EXCEPT !.pc = "rejected"], reg, <<>>)

\* the inner .catch callback of getL2Network(web3Provider).then(...)
CatchRollup(c, reg) ==
  Step(Published(c, StatusResult(NOT_SUPPORTED)), reg, <<StatusResult(NOT_SUPPORTED)>>)

\* the promise that rejected is the query of the counterpart connection:
\* getL2Network(l2Provider) at line 296, getL1Network(l1Provider, ...) at 381-384
CounterpartFailed(c) == [c EXCEPT !.counterpartFailed = TRUE]

\* a promise settled by the RPC failing although the lookup had an answer
Failing(c, answers, ok) == [c EXCEPT !.failed = @ \/ (answers # {} /\ ~ok)]

\* commit a step of call i: the call, the registry, and setResult if it published
Commit(i, step) ==
  /\ IF step.call.pc \in {"done", "rejected"}
       THEN /\ calls' = [calls EXCEPT ![i] = Settled(step.call)]
            /\ settled' = <<step.call>>
       ELSE /\ calls' = [calls EXCEPT ![i] = step.call]
            /\ settled' = <<>>
  /\ registry' = step.registry
  /\ IF step.publish # <<>>
       THEN /\ result' = step.publish[1]
            /\ pending' = AfterSetResult(pending)
       ELSE UNCHANGED <<result, pending>>
  /\ UNCHANGED <<selectedL2ChainId, provider, account, network, connectPc,
                 rejectsDuplicates>>
  /\ UNCHANGED cardVars

At(i, pc) == pending = {} /\ i \in 1..Len(calls) /\ calls[i].pc = pc

\* `await web3Provider.getNetwork()` settles
GetNetworkSettled ==
  \E i \in 1..Len(calls), ok \in BOOLEAN :
    /\ At(i, "getNetwork")
    /\ IF ok
         THEN Commit(i, AfterGetNetwork(calls[i], registry))
         ELSE Commit(i, Step([calls[i] EXCEPT !.pc = "rejected", !.failed = TRUE],
                             registry, <<>>))

\* getL1Network(web3Provider, _selectedL2ChainId) settles
GetL1NetworkSettled ==
  \E i \in 1..Len(calls), ok \in BOOLEAN :
    /\ At(i, "getL1Network")
    /\ LET c == calls[i]
           answers == L1Matches(registry, c.web3Provider, c.l2ChainId)
       IN  IF ok /\ answers # {}
             THEN Commit(i, ThenL1Network(c, CHOOSE d \in answers : TRUE, registry,
                                          rejectsDuplicates))
             ELSE Commit(i, Catch(Failing(c, answers, ok), registry, rejectsDuplicates))

\* getL2Network(l2Provider) of the base branch settles
BaseGetL2NetworkSettled ==
  \E i \in 1..Len(calls), ok \in BOOLEAN :
    /\ At(i, "base:getL2Network")
    /\ LET c == calls[i]
           answers == L2Matches(registry, JsonRpcProvider(rpcURLs(c.l2ChainId)))
       IN  IF ok /\ answers # {}
             THEN Commit(i, ThenBaseL2Network(c, CHOOSE d \in answers : TRUE, registry))
             ELSE Commit(i, Catch(CounterpartFailed(Failing(c, answers, ok)), registry,
                                  rejectsDuplicates))

\* getL2Network(web3Provider) of the .catch branch settles
RollupGetL2NetworkSettled ==
  \E i \in 1..Len(calls), ok \in BOOLEAN :
    /\ At(i, "rollup:getL2Network")
    /\ LET c == calls[i]
           answers == L2Matches(registry, c.web3Provider)
       IN  IF ok /\ answers # {}
             THEN Commit(i, ThenRollupL2Network(c, CHOOSE d \in answers : TRUE, registry))
             ELSE Commit(i, CatchRollup(Failing(c, answers, ok), registry))

\* getL1Network(l1Provider, _selectedL2ChainId) of the .catch branch settles
RollupGetL1NetworkSettled ==
  \E i \in 1..Len(calls), ok \in BOOLEAN :
    /\ At(i, "rollup:getL1Network")
    /\ LET c == calls[i]
           l1Provider == JsonRpcProvider(rpcURLs(c.l2Network.partnerChainID))
           answers == L1Matches(registry, l1Provider, c.l2ChainId)
       IN  IF ok /\ answers # {}
             THEN Commit(i, ThenRollupL1Network(c, CHOOSE d \in answers : TRUE, registry))
             ELSE Commit(i, CatchRollup(CounterpartFailed(Failing(c, answers, ok)),
                                        registry))

Next ==
  \/ DisconnectEffect
  \/ ConnectEffect
  \/ WalletChangeEffect
  \/ ConnectResolved
  \/ ConnectRejected
  \/ AccountsChanged
  \/ ChainChanged
  \/ GetNetworkSettled
  \/ GetL1NetworkSettled
  \/ BaseGetL2NetworkSettled
  \/ RollupGetL2NetworkSettled
  \/ RollupGetL1NetworkSettled

Spec == Init /\ [][Next]_vars

(***************************************************************************)
(* WithdrawalCardExecuted: the card is mounted, shows another transaction, *)
(* is unmounted; time passes; the timer fires.                             *)
(***************************************************************************)
\* the card is mounted for a transaction: the effect arms its timer
MountCard ==
  \E id \in TxIds :
    /\ ~card.mounted
    /\ displays < MaxDisplays
    /\ displays' = displays + 1
    /\ card' = [mounted |-> TRUE, txId |-> id, timeout |-> displays']
    /\ timers' = setTimeout(timers, displays', id)
    /\ UNCHANGED <<dispatched, hookVars>>

\* a render with another tx.txId: the cleanup of the last effect, then the effect
TxIdChanged ==
  \E id \in TxIds \ {card.txId} :
    /\ card.mounted
    /\ displays < MaxDisplays
    /\ displays' = displays + 1
    /\ card' = [mounted |-> TRUE, txId |-> id, timeout |-> displays']
    /\ timers' = setTimeout(clearTimeout(timers, card.timeout), displays', id)
    /\ UNCHANGED <<dispatched, hookVars>>

\* the card is unmounted: the cleanup of the last effect
UnmountCard ==
  /\ card.mounted
  /\ card' = NoCard
  /\ timers' = clearTimeout(timers, card.timeout)
  /\ UNCHANGED <<dispatched, displays, hookVars>>

\* a second passes
Tick ==
  /\ \E t \in timers : ~Due(t)
  /\ timers' = {IF Due(t) THEN t ELSE [t EXCEPT !.elapsed = @ + 1] : t \in timers}
  /\ UNCHANGED <<card, dispatched, displays, hookVars>>

\* the callback of a timer that is due runs
TimerFired ==
  \E t \in timers :
    /\ Due(t)
    /\ dispatched' = Append(dispatched, SetTxAsSeen(t, card))
    /\ timers' = timers \ {t}
    /\ UNCHANGED <<card, displays, hookVars>>

NextCard ==
  \/ MountCard
  \/ TxIdChanged
  \/ UnmountCard
  \/ Tick
  \/ TimerFired

\* the provider at rest while the card is looked at
InitHookAtRest ==
  /\ selectedL2ChainId = NoChain
  /\ provider = NoChain
  /\ account = NoAccount
  /\ network = NoChain
  /\ connectPc = "init"
  /\ result = StatusResult(defaultStatus(TRUE))
  /\ pending = {"disconnect", "tryConnect", "walletChange"}
  /\ calls = <<>>
  /\ settled = <<>>
  /\ registry = WellKnownRegistry
  /\ rejectsDuplicates = FALSE

\* the card not yet mounted, under a provider at rest
InitAtRest == InitHookAtRest /\ InitCard

SpecCard == InitAtRest /\ [][NextCard]_vars

(***************************************************************************)
(* Vocabulary of the properties.                                           *)
(***************************************************************************)
InFlight(c) == c.pc \notin {"done", "rejected"}

\* the call that settled in the last step, as a set
JustSettled == {settled[k] : k \in 1..Len(settled)}

\* the call ran to its setResult and no call it made failed for a reason of its
\* surroundings: no RPC call failed, and addCustomNetwork accepted the pair
Undisturbed(c) == c.pc = "done" /\ ~c.failed /\ ~c.registrationThrew

WalletChain(c) == c.web3Provider.chainId

\* the requested rollup identifier of a call, or the one derived for its wallet chain
RequestedL2(c) == DeriveL2ChainId(c.selectedL2ChainId, WalletChain(c))

\* the (base, rollup) descriptor pairs a registry supports
SupportedPairs(reg) ==
  {p \in reg.l1 \X reg.l2 :
     p[2].partnerChainID = p[1].chainID /\ p[2].chainID \in p[1].partnerChainIDs}

(***************************************************************************)
(* C1: once every call of update() has published, the published result is *)
(* the one of the call that started last (a result of a superseded call is *)
(* discarded).                                                             *)
(***************************************************************************)
C1_LatestStartedWins ==
  (/\ pending = {}
   /\ account # NoAccount
   /\ calls # <<>>
   /\ \A i \in 1..Len(calls) : calls[i].pc = "done")
  => result = calls[Len(calls)].published[1]

(***************************************************************************)
(* C2: while connected with the account absent, the next result published  *)
(* is not_connected (the reset is the first thing to run), and update() is *)
(* never started for an absent account.                                    *)
(***************************************************************************)
C2_DisconnectResets ==
  [][/\ (result.status = CONNECTED /\ account = NoAccount)
          => /\ "disconnect" \in pending
             /\ result' # result => result'.status = NOT_CONNECTED
     /\ Len(calls') > Len(calls)
          => /\ account # NoAccount
             /\ calls'[Len(calls')].address # NoAccount]_vars

C2_Witness ==
  /\ result.status = NOT_CONNECTED
  /\ account = NoAccount
  /\ "walletChange" \in pending
  /\ \E i \in 1..Len(calls) :
       calls[i].pc = "done" /\ calls[i].published[1].status = CONNECTED

(***************************************************************************)
(* C3: a call of update() that runs undisturbed, for a requested (or       *)
(* derived) rollup whose pair the registry supported when the call began,  *)
(* publishes connected / wallet-on-base when the wallet is on the base     *)
(* chain of the pair, connected / wallet-on-rollup when it is on the       *)
(* rollup, and not_supported on any other chain.                           *)
(***************************************************************************)
C3_Orientation ==
  \A c \in JustSettled :
    Undisturbed(c) =>
      \A p \in SupportedPairs(c.registry0) :
        p[2].chainID = RequestedL2(c) =>
          LET r == c.published[1]
          IN  /\ WalletChain(c) = p[1].chainID
                   => /\ r.status = CONNECTED
                      /\ r.isConnectedToArbitrum = FALSE
                      /\ r.l1.network = p[1] /\ r.l2.network = p[2]
              /\ WalletChain(c) = p[2].chainID
                   => /\ r.status = CONNECTED
                      /\ r.isConnectedToArbitrum = TRUE
                      /\ r.l1.network = p[1] /\ r.l2.network = p[2]
              /\ WalletChain(c) \notin {p[1].chainID, p[2].chainID}
                   => r = StatusResult(NOT_SUPPORTED)

C3_Witness ==
  \E c \in JustSettled :
    /\ Undisturbed(c)
    /\ WalletChain(c) = EthLocal
    /\ <<customL1Network, customL2Network>> \in SupportedPairs(c.registry0)
    /\ result.status = CONNECTED
    /\ result.isConnectedToArbitrum = FALSE

(***************************************************************************)
(* C4: a call whose base-chain interpretation failed, for a wallet chain   *)
(* other than the requested (or derived) rollup, publishes not_supported   *)
(* and no pairing.                                                         *)
(***************************************************************************)
C4_MismatchRejected ==
  \A c \in JustSettled :
    (c.pc = "done" /\ c.baseFailed /\ WalletChain(c) # RequestedL2(c))
      => /\ c.published = <<StatusResult(NOT_SUPPORTED)>>
         /\ result = StatusResult(NOT_SUPPORTED)

C4_Witness ==
  \E c \in JustSettled :
    /\ c.pc = "done" /\ c.baseFailed
    /\ WalletChain(c) = ArbLocal
    /\ c.selectedL2ChainId = UnknownL2
    /\ result.status = NOT_SUPPORTED

(***************************************************************************)
(* C5: without a requested rollup and without a default for the wallet's   *)
(* chain, a call publishes not_supported and stops: it has looked nothing  *)
(* up, registered nothing and created no provider, and never does.         *)
(***************************************************************************)
NoDefault(c) ==
  c.selectedL2ChainId = NoChain /\ chainIdToDefaultL2ChainId(WalletChain(c)) = NoChain

C5_NoDefaultStops ==
  /\ \A c \in JustSettled :
       (c.pc = "done" /\ NoDefault(c))
         => /\ c.published = <<StatusResult(NOT_SUPPORTED)>>
            /\ result = StatusResult(NOT_SUPPORTED)
            /\ c.lookups = 0 /\ c.registrations = 0 /\ c.providers = 0
  /\ \A i \in 1..Len(calls) :
       (InFlight(calls[i]) /\ NoDefault(calls[i])) => calls[i].pc = "getNetwork"

C5_Witness ==
  \E c \in JustSettled :
    /\ c.pc = "done" /\ NoDefault(c)
    /\ WalletChain(c) = UnknownChain
    /\ result.status = NOT_SUPPORTED

(***************************************************************************)
(* C6: once connect() has rejected, the published status is not_connected. *)
(***************************************************************************)
C6_ConnectRejected == connectPc = "rejected" => result.status = NOT_CONNECTED

C6_Witness == connectPc = "rejected" /\ pending = {}

(***************************************************************************)
(* C7 (a repeated registration succeeds and changes nothing) is a          *)
(* statement about addCustomNetwork itself; the component calls it with    *)
(* the same pair in every call of update (ThenL1Network, Catch), and the   *)
(* model follows both answers of the library in rejectsDuplicates.         *)
(***************************************************************************)

(***************************************************************************)
(* C8: the published result has one of the four statuses; it carries l1,   *)
(* l2 and isConnectedToArbitrum exactly when it is connected, and then     *)
(* network, signer and provider are there on both sides.                   *)
(***************************************************************************)
SidePopulated(side) ==
  /\ DOMAIN side = {"network", "signer", "provider"}
  /\ side.network.chainID # NoChain
  /\ side.provider.kind = "JsonRpcProvider"
  /\ DOMAIN side.signer = {"provider", "key"}

C8_Discriminated ==
  /\ result.status \in Statuses
  /\ result.status # CONNECTED => DOMAIN result = {"status"}
  /\ result.status = CONNECTED
       => /\ DOMAIN result = {"status", "l1", "l2", "isConnectedToArbitrum"}
          /\ SidePopulated(result.l1)
          /\ SidePopulated(result.l2)

C8_Witness == result.status = CONNECTED /\ result.isConnectedToArbitrum

(***************************************************************************)
(* C9: the context has a value exactly while the status is connected: the  *)
(* children are rendered only then, otherwise the fallback is called with  *)
(* the status; useNetworksAndSigners() throws for the context without      *)
(* value and returns the value otherwise.                                  *)
(***************************************************************************)
C9_ContextGate ==
  LET r == Render(result)
  IN  /\ r.context # UndefinedContext <=> result.status = CONNECTED
      /\ r.view = "children" <=> result.status = CONNECTED
      /\ r.view = "fallback" => r.status = result.status
      /\ useNetworksAndSigners(UndefinedContext) = [threw |-> TRUE]
      /\ useNetworksAndSigners(r.context).threw <=> result.status # CONNECTED
      /\ result.status = CONNECTED => useNetworksAndSigners(r.context).value = result

C9_Witness ==
  /\ result.status = CONNECTED
  /\ Render(result).view = "children"
  /\ ~useNetworksAndSigners(Render(result).context).threw

(***************************************************************************)
(* C10: with the custom pair in the registry when the call begins, the     *)
(* wallet on 1337 and 412346 requested, an undisturbed call publishes      *)
(* connected / wallet-on-base, and its l2 provider is a JsonRpcProvider at *)
(* the RPC endpoint of the rollup descriptor.                              *)
(***************************************************************************)
C10_SeededBase ==
  \A c \in JustSettled :
    (/\ Undisturbed(c)
     /\ WalletChain(c) = EthLocal
     /\ c.selectedL2ChainId = ArbLocal
     /\ Registered(c.registry0, customL1Network, customL2Network))
    => /\ result = c.published[1]
       /\ result.status = CONNECTED
       /\ result.isConnectedToArbitrum = FALSE
       /\ result.l2.network = customL2Network
       /\ result.l2.provider = JsonRpcProvider(customL2Network.rpcURL)

C10_Witness ==
  \E c \in JustSettled :
    /\ Undisturbed(c)
    /\ WalletChain(c) = EthLocal
    /\ c.selectedL2ChainId = ArbLocal
    /\ Registered(c.registry0, customL1Network, customL2Network)
    /\ result.status = CONNECTED


\* the rollup identifier asked of a call: the explicit selection, else the default
\* of the wallet chain
AskedL2(c) ==
  IF c.selectedL2ChainId # NoChain THEN c.selectedL2ChainId
  ELSE chainIdToDefaultL2ChainId(WalletChain(c))

(***************************************************************************)
(* C11: in a published connected pairing the rollup descriptor's partner   *)
(* id is the base descriptor's chain id, and the rollup descriptor's chain *)
(* id is the rollup identifier asked of the call that published it; the    *)
(* base interpretation goes on past getL1Network, and publishes, only for  *)
(* a wallet chain that has the asked rollup among its partners.            *)
(***************************************************************************)
C11_PartnersPaired ==
  /\ result.status = CONNECTED
       => result.l2.network.partnerChainID = result.l1.network.chainID
  /\ \A c \in JustSettled :
       (c.pc = "done" /\ c.published[1].status = CONNECTED)
         => /\ c.published[1].l2.network.chainID = AskedL2(c)
            /\ ~c.published[1].isConnectedToArbitrum
                 => /\ c.published[1].l1.network.chainID = WalletChain(c)
                    /\ AskedL2(c) \in c.published[1].l1.network.partnerChainIDs
  /\ \A i \in 1..Len(calls) :
       calls[i].pc = "base:getL2Network"
         => /\ calls[i].l1Network.chainID = WalletChain(calls[i])
            /\ AskedL2(calls[i]) \in calls[i].l1Network.partnerChainIDs

C11_Witness ==
  \E c \in JustSettled :
    /\ c.pc = "done"
    /\ result = c.published[1]
    /\ result.status = CONNECTED
    /\ ~result.isConnectedToArbitrum
    /\ c.selectedL2ChainId = NoChain


\* the wallet's own signer: web3Provider.getSigner(0)
IsWalletSigner(signer) == signer.provider.kind = "Web3Provider" /\ signer.key = "0"

\* a signer obtained from the direct-RPC provider of its side for an address
IsRpcSigner(side, address) ==
  /\ side.signer.provider = side.provider
  /\ side.signer.key = address

(***************************************************************************)
(* C12: in a published connected result the signers follow the orientation *)
(* flag: with the flag false the l1 signer is the wallet's own (index 0)   *)
(* and the l2 signer comes from the l2 provider for the wallet address;    *)
(* with the flag true it is the other way round.  Exactly one side has the *)
(* wallet's signer, and both providers are direct-RPC providers.           *)
(***************************************************************************)
C12_SignerSources ==
  /\ result.status = CONNECTED
       => /\ result.l1.provider.kind = "JsonRpcProvider"
          /\ result.l2.provider.kind = "JsonRpcProvider"
          /\ IsWalletSigner(result.l1.signer) # IsWalletSigner(result.l2.signer)
          /\ IF result.isConnectedToArbitrum
               THEN /\ IsWalletSigner(result.l2.signer)
                    /\ \E a \in Accounts : IsRpcSigner(result.l1, a)
               ELSE /\ IsWalletSigner(result.l1.signer)
                    /\ \E a \in Accounts : IsRpcSigner(result.l2, a)
  /\ \A c \in JustSettled :
       (c.pc = "done" /\ c.published[1].status = CONNECTED)
         => LET r == c.published[1]
            IN  /\ (IF r.isConnectedToArbitrum THEN r.l2 ELSE r.l1).signer
                     = getSigner(c.web3Provider, "0")
                /\ IsRpcSigner(IF r.isConnectedToArbitrum THEN r.l1 ELSE r.l2, c.address)

C12_Witness ==
  \E c \in JustSettled :
    /\ c.pc = "done"
    /\ result = c.published[1]
    /\ result.status = CONNECTED
    /\ result.isConnectedToArbitrum
    /\ IsRpcSigner(result.l1, c.address)


(***************************************************************************)
(* C13: a call whose query of the counterpart connection failed            *)
(* (getL2Network on the direct l2 provider in the base branch,             *)
(* getL1Network on the direct l1 provider in the rollup branch) ends there *)
(* by publishing not_supported: it publishes no connected result and does  *)
(* not go on to publish anything later.                                    *)
(***************************************************************************)
C13_CounterpartFailure ==
  /\ \A c \in JustSettled :
       c.counterpartFailed
         => /\ c.pc = "done"
            /\ c.published = <<StatusResult(NOT_SUPPORTED)>>
            /\ result = StatusResult(NOT_SUPPORTED)
  /\ \A i \in 1..Len(calls) :
       (InFlight(calls[i]) /\ calls[i].pc # "getNetwork") => ~calls[i].counterpartFailed

C13_Witness ==
  \E c \in JustSettled :
    /\ c.counterpartFailed
    /\ c.l2Network # NoNetwork
    /\ result.status = NOT_SUPPORTED

\* the same failure met in the base branch
C13_WitnessBase ==
  \E c \in JustSettled :
    /\ c.counterpartFailed
    /\ c.l2Network = NoNetwork
    /\ c.l1Network # NoNetwork


\* the chains of the pair the component registers itself
CustomChains == {customL1Network.chainID, customL2Network.chainID}

(***************************************************************************)
(* C14: a call that has made a registry lookup for a wallet on one of the  *)
(* custom chains has run addCustomNetwork before it, unless the custom     *)
(* pair was in the registry already.                                       *)
(***************************************************************************)
C14_RegistrationFirst ==
  \A i \in 1..Len(calls) :
    (/\ InFlight(calls[i])
     /\ calls[i].lookups > 0
     /\ WalletChain(calls[i]) \in CustomChains)
    => \/ calls[i].registrations > 0
       \/ Registered(registry, customL1Network, customL2Network)


(***************************************************************************)
(* C15: a resolution started for a changed wallet state (account present)  *)
(* while the status is connected takes the previous pairing away: the      *)
(* status has left connected once the new call of update() is under way,   *)
(* so the old pairing is not exposed while the new one is resolved.        *)
(***************************************************************************)
C15_NoStalePairing ==
  [][(/\ Len(calls') > Len(calls)
      /\ account # NoAccount
      /\ result.status = CONNECTED)
     => result'.status # CONNECTED]_vars


(***************************************************************************)
(* C16: not_supported published for the present wallet state stays: with   *)
(* an account present and the effects run, the call started last is the    *)
(* one of the present wallet state (every change starts a call), so if it  *)
(* has published not_supported and the wallet has not changed since, the   *)
(* status is not_supported.                                                *)
(***************************************************************************)
C16_NotSupportedStays ==
  (/\ pending = {}
   /\ account # NoAccount
   /\ calls # <<>>
   /\ calls[Len(calls)].pc = "done"
   /\ calls[Len(calls)].published[1].status = NOT_SUPPORTED)
  => result.status = NOT_SUPPORTED


(***************************************************************************)
(* C17: once the wallet has connected, with no account present, the        *)
(* effects run and every call of update() having published, the status is  *)
(* not_connected, whatever it was when the account went away.              *)
(***************************************************************************)
C17_AbsentAccountSettles ==
  (/\ connectPc = "resolved"
   /\ account = NoAccount
   /\ pending = {}
   /\ \A i \in 1..Len(calls) : calls[i].pc = "done")
  => result.status = NOT_CONNECTED


\* nothing has completed yet: no connect attempt, no call of update()
NothingCompleted ==
  /\ connectPc \notin {"resolved", "rejected"}
  /\ calls = <<>>

(***************************************************************************)
(* C18 as stated: before any connect attempt or resolution has completed   *)
(* the published status is loading.                                        *)
(***************************************************************************)
C18_InitialLoading == NothingCompleted => result.status = LOADING

(***************************************************************************)
(* C18 amended: before any connect attempt or resolution has completed the *)
(* published status is defaultStatus: loading where window.web3 is         *)
(* defined, not_connected where it is not.                                 *)
(***************************************************************************)
C18_InitialDefault ==
  /\ defaultStatus(TRUE) = LOADING
  /\ defaultStatus(FALSE) = NOT_CONNECTED
  /\ NothingCompleted
       => \E web3Defined \in BOOLEAN : result = StatusResult(defaultStatus(web3Defined))

C18_Witness ==
  /\ NothingCompleted
  /\ connectPc = "pending"
  /\ result = StatusResult(NOT_CONNECTED)


(***************************************************************************)
(* C19: a call of update() whose promises have all settled, so that        *)
(* nothing of it is left to run, has published a status other than         *)
(* loading; and with an account present, the effects run and every call    *)
(* started at its end, the status is not loading.                          *)
(***************************************************************************)
C19_EveryCallPublishes ==
  /\ \A i \in 1..Len(calls) :
       ~InFlight(calls[i])
         => /\ calls[i].published # <<>>
            /\ calls[i].published[1].status # LOADING
  /\ (/\ pending = {}
      /\ account # NoAccount
      /\ calls # <<>>
      /\ \A i \in 1..Len(calls) : ~InFlight(calls[i]))
     => result.status # LOADING


====
